---- MODULE Spec2Model ----
(***************************************************************************)
(* Model of renderer/render.py: Renderer.start and the helpers it calls    *)
(* (_load_map, _load_map_manifest, _check_versioned_layers), the video     *)
(* writer it drives, and the resources it reads.                           *)
(***************************************************************************)
EXTENDS Integers, Sequences, FiniteSets, TLC

(***************************************************************************)
(* Bounds of the model.                                                    *)
(***************************************************************************)
\* longest replay_data.events mapping (its keys are 1..MaxEvents, any order)
MaxEvents == 2
\* most roles a version bundle overrides
MaxOverrides == 1
\* largest world coordinate and radius, in sixteenths
MaxCoord == 2000
\* bits of a float's significand (53 in CPython, cut down to be checkable)
Precision == 12

(***************************************************************************)
(* JSON values as json.load returns them: a Python type and a number.      *)
(* A float carries its value in thousandths.                               *)
(***************************************************************************)
JInt(n) == [type |-> "int", val |-> n]
JFloat(n) == [type |-> "float", val |-> n]
JBool(n) == [type |-> "bool", val |-> n]

\* isinstance(v, int): bool is a subclass of int in Python
IsInstanceInt(v) == v.type \in {"int", "bool"}
\* isinstance(v, float)
IsInstanceFloat(v) == v.type = "float"

\* values a manifest entry may hold in each position
SizeValues == {JInt(760), JInt(700), JFloat(760000)}
SpaceValues == {JInt(1600), JInt(720), JInt(0), JInt(1601), JFloat(720000), JBool(1)}
ScaleValues == {JFloat(235), JInt(1)}

\* a manifest entry: the JSON value stored under the map's key
EntryOf(items) == [iter |-> TRUE, items |-> items]
ListEntries == {EntryOf(<<a, b, c>>) : a \in SizeValues, b \in SpaceValues, c \in ScaleValues}
ShortEntry == EntryOf(<<JInt(760), JInt(1600)>>)
ScalarEntry == [iter |-> FALSE, items |-> <<>>]
Entries == ListEntries \cup {ShortEntry, ScalarEntry}

\* what open_text + json.load + [game_map] meet for one manifest
NoEntry == EntryOf(<<>>)
ManifestOf(st, e) == [st |-> st, entry |-> e]
Manifests == {ManifestOf(s, NoEntry) : s \in {"NoPackage", "NoFile", "NoMap"}}
             \cup {ManifestOf("Entry", e) : e \in Entries}

(***************************************************************************)
(* Layers.                                                                 *)
(***************************************************************************)
\* layers listed in the order the layers are drawn in
layersAsDrawn == <<"LayerCapture", "LayerWard", "LayerShot", "LayerTorpedo",
                   "LayerShip", "LayerSmoke", "LayerPlane">>

\* the list `layers` of _check_versioned_layers
layers == <<"LayerShip", "LayerShot", "LayerTorpedo", "LayerSmoke",
            "LayerPlane", "LayerWard", "LayerCapture">>
Roles == {layers[i] : i \in 1..Len(layers)}

\* a version bundle: absent, or the set of roles its layers module defines
Bundles == {[present |-> FALSE, defs |-> {}]}
           \cup {[present |-> TRUE, defs |-> d] :
                   d \in {s \in SUBSET Roles : Cardinality(s) <= MaxOverrides}}

(***************************************************************************)
(* replay_data.events: the keys of a dict, distinct, in insertion order.   *)
(***************************************************************************)
Timestamps == 1..MaxEvents
EventKeys == {s \in UNION {[1..n -> Timestamps] : n \in 0..MaxEvents} :
                \A i, j \in DOMAIN s : i # j => s[i] # s[j]}

(***************************************************************************)
(* Images live on a heap, so that copy() and in-place drawing are told     *)
(* apart.  An image is its size, what it was built from, the draw calls    *)
(* made on it and what was pasted on it.                                   *)
(***************************************************************************)
NoImage == [size |-> 0, base |-> <<>>, ops |-> <<>>, pasted |-> <<>>]
Refs == {"fgT", "bgT", "fgC", "bgC"}

\* the keyword options the tests construct a Renderer with
Options == {"logs", "enable_chat", "anon", "team_tracers"}
\* the output paths a caller may ask for
Paths == {"minimap.mp4", "out.mp4"}
\* a call Renderer(replay_data, **options).start(path); path "" is start()
Calls == [path : Paths \cup {""}, options : SUBSET Options]
\* the call the signatures of __init__ and start are written for
PlainCall == [path |-> "", options |-> {}]

\* arguments and result of a get_scaled or get_scaled_r call before it is made
NoArg == [fn |-> "", xy |-> <<0, 0>>, flip_y |-> TRUE, r |-> 0]
NoRet == [xy |-> <<0, 0>>, r |-> 0]

VARIABLES
    arg,                \* the get_scaled / get_scaled_r call being made
    ret,                \* what that call returned
    call,               \* how the caller constructs the Renderer and calls start
    versioned_manifest, \* the manifest of versions.<game_version>.resources.spaces
    default_manifest,   \* the manifest of resources.spaces
    bundle,             \* versions.<game_version>.layers
    events,             \* list(replay_data.events.keys())
    pc,                 \* position in start()
    idx,                \* position inside the current loop
    step,               \* position among the draw calls of one iteration
    error,              \* the exception start() raised, "" if none
    minimap_size, space_size, scaling,  \* self.minimap_size, .space_size, .scaling
    map_res,            \* the package _load_map_manifest returned
    minimap_image, minimap_bg,          \* self.minimap_image, self.minimap_bg (references)
    heap,               \* the images
    loaded,             \* outcome of each load_image call so far
    init_layers,        \* the layers constructed so far
    minimap_img, local_minimap_bg,      \* the per-iteration copies (references)
    video_writer        \* the video sink

vars == <<arg, ret, call, versioned_manifest, default_manifest, bundle, events, pc, idx, step, error,
          minimap_size, space_size, scaling, map_res, minimap_image, minimap_bg,
          heap, loaded, init_layers, minimap_img, local_minimap_bg, video_writer>>

envVars == <<arg, ret, call, versioned_manifest, default_manifest, bundle, events>>
mapVars == <<minimap_size, space_size, scaling, map_res>>
imgVars == <<minimap_image, minimap_bg, heap, loaded>>
loopVars == <<minimap_img, local_minimap_bg>>

\* the fields after Renderer.__init__, before start() is entered
Constructed ==
    /\ arg = NoArg
    /\ ret = NoRet
    /\ pc = "call"
    /\ idx = 0
    /\ step = 0
    /\ error = ""
    /\ minimap_size = JInt(0)
    /\ space_size = JInt(0)
    /\ scaling = JFloat(0)
    /\ map_res = "none"
    /\ minimap_image = "None"
    /\ minimap_bg = "None"
    /\ heap = [r \in Refs |-> NoImage]
    /\ loaded = <<>>
    /\ init_layers = <<>>
    /\ minimap_img = "None"
    /\ local_minimap_bg = "None"
    /\ video_writer = [state |-> "none", path |-> "", fps |-> 0, size |-> 0, frames |-> <<>>]

\* Renderer(replay_data).start(), and the resources the run will meet
Init ==
    /\ call = PlainCall
    /\ versioned_manifest \in Manifests
    /\ default_manifest \in Manifests
    /\ bundle \in Bundles
    /\ events \in EventKeys
    /\ Constructed

\* any call, for a map that only the default manifest holds
InitCall ==
    /\ call \in Calls
    /\ versioned_manifest = ManifestOf("NoMap", NoEntry)
    /\ default_manifest = ManifestOf("Entry", EntryOf(<<JInt(760), JInt(1600), JFloat(235)>>))
    /\ bundle \in Bundles
    /\ events \in EventKeys
    /\ Constructed

(***************************************************************************)
(* The call: __init__(self, replay_data) and start(self)                   *)
(***************************************************************************)
\* the exception binding the arguments raises, "" if the call is accepted
CallError(c) ==
    IF c.options # {} THEN "TypeError"
    ELSE IF c.path # "" THEN "TypeError"
    ELSE ""

StartCall ==
    /\ pc = "call"
    /\ pc' = IF CallError(call) = "" THEN "load_manifest" ELSE "Failed"
    /\ error' = CallError(call)
    /\ UNCHANGED <<envVars, idx, step, mapVars, imgVars, init_layers, loopVars,
                   video_writer>>

(***************************************************************************)
(* _load_map_manifest                                                      *)
(***************************************************************************)
\* the exception reading one manifest raises, "" if the entry is found
LookupError(m) ==
    CASE m.st = "NoPackage" -> "ModuleNotFoundError"
      [] m.st = "NoFile" -> "FileNotFoundError"
      [] m.st = "NoMap" -> "KeyError"
      [] OTHER -> ""

\* the exception `a, b, c = entry` raises, "" if it unpacks
UnpackError(e) ==
    IF ~e.iter THEN "TypeError"
    ELSE IF Len(e.items) # 3 THEN "ValueError"
    ELSE ""

\* EntryAsserts without the upper limit of space_size
EntryAssertsNoLimit(ms, ss, sc) ==
    /\ IsInstanceInt(ms)
    /\ IsInstanceInt(ss)
    /\ IsInstanceFloat(sc)
    /\ 0 < ss.val
    /\ 760 = ms.val

\* the assertions on the unpacked fields
EntryAsserts(ms, ss, sc) ==
    /\ IsInstanceInt(ms)
    /\ IsInstanceInt(ss)
    /\ IsInstanceFloat(sc)
    /\ 0 < ss.val /\ ss.val <= 1600
    /\ 760 = ms.val

\* FallsBack taking an entry that does not unpack for a missing one
FallsBackOnBadEntry(exc) ==
    exc \in {"FileNotFoundError", "KeyError", "ValueError", "TypeError"}

\* the inner except clause: which lookup errors fall back to the default manifest
FallsBack(exc) == exc \in {"FileNotFoundError", "KeyError"}

\* reading one manifest and unpacking the entry: the exception raised, "" if none
ReadError(m) == IF LookupError(m) # "" THEN LookupError(m) ELSE UnpackError(m.entry)

\* ManifestRead returning the default package also for a versioned entry
ManifestReadDefaultPkg(vm, dm) ==
    IF ReadError(vm) = "" THEN [src |-> "default", m |-> vm, exc |-> ""]
    ELSE IF FallsBack(ReadError(vm)) THEN [src |-> "default", m |-> dm, exc |-> ReadError(dm)]
    ELSE [src |-> "versioned", m |-> vm, exc |-> ReadError(vm)]

\* the manifest whose entry ends up in the fields, and its package
ManifestRead(vm, dm) ==
    IF ReadError(vm) = "" THEN [src |-> "versioned", m |-> vm, exc |-> ""]
    ELSE IF FallsBack(ReadError(vm)) THEN [src |-> "default", m |-> dm, exc |-> ReadError(dm)]
    ELSE [src |-> "versioned", m |-> vm, exc |-> ReadError(vm)]

\* the exception type the outer except clause turns a failure into
ManifestWrap(exc) == "MapManifestLoadError"

LoadMapManifest ==
    /\ pc = "load_manifest"
    /\ LET r == ManifestRead(versioned_manifest, default_manifest)
           it == r.m.entry.items
       IN IF r.exc # ""
          THEN /\ pc' = "Failed"
               /\ error' = ManifestWrap(r.exc)
               /\ UNCHANGED mapVars
          ELSE /\ minimap_size' = it[1]
               /\ space_size' = it[2]
               /\ scaling' = it[3]
               /\ IF EntryAsserts(it[1], it[2], it[3])
                  THEN /\ pc' = "load_images"
                       /\ map_res' = r.src
                       /\ error' = ""
                  ELSE /\ pc' = "Failed"
                       /\ error' = ManifestWrap("AssertionError")
                       /\ map_res' = map_res
    /\ UNCHANGED <<envVars, idx, step, imgVars, init_layers, loopVars, video_writer>>

(***************************************************************************)
(* _load_map                                                               *)
(***************************************************************************)
\* the three load_image calls, in order: file and package
ImageFiles(res) == <<[file |-> "minimap_grid_legends.png", pkg |-> "resources"],
                     [file |-> "minimap.png", pkg |-> res],
                     [file |-> "minimap_water.png", pkg |-> res]>>

\* how one load_image call can end: the image, a missing file, a missing
\* package, undecodable data, an I/O failure
LoadOutcomes == {"ok", "FileNotFoundError", "ModuleNotFoundError",
                 "UnidentifiedImageError", "PermissionError"}

\* the except clause of _load_map: the exception that leaves _load_map
MapLoadWrap(exc) ==
    IF exc \in {"FileNotFoundError", "ModuleNotFoundError"} THEN "MapLoadError" ELSE exc

\* AfterLoad going on after a failed load
AfterLoadIgnore(o, i) ==
    IF i + 1 = 3 THEN "compose_map" ELSE "load_images"

\* where _load_map goes after the load_image call number i + 1 ended with o
AfterLoad(o, i) ==
    IF o # "ok" THEN "Failed"
    ELSE IF i + 1 = 3 THEN "compose_map"
    ELSE "load_images"

LoadImage ==
    /\ pc = "load_images"
    /\ \E o \in LoadOutcomes :
        /\ loaded' = Append(loaded, [file |-> ImageFiles(map_res)[idx + 1].file,
                                     pkg |-> ImageFiles(map_res)[idx + 1].pkg,
                                     outcome |-> o])
        /\ IF o = "ok"
           THEN /\ idx' = IF idx + 1 = 3 THEN 0 ELSE idx + 1
                /\ error' = error
           ELSE /\ idx' = idx
                /\ error' = MapLoadWrap(o)
        /\ pc' = AfterLoad(o, idx)
    /\ UNCHANGED <<envVars, step, mapVars, minimap_image, minimap_bg, heap,
                   init_layers, loopVars, video_writer>>

\* the legend is the map canvas plus the margin the foreground is pasted at
LegendSize == 760 + 2 * 40

\* self.minimap_bg: the water resized to the legend, the legend pasted on it
BackgroundTemplate ==
    [size |-> LegendSize, base |-> <<"water", "resize", "legend">>,
     ops |-> <<>>, pasted |-> <<>>]

\* self.minimap_image: water, grid and land composited
ForegroundTemplate ==
    [size |-> 760, base |-> <<"water", "grid", "land">>,
     ops |-> <<>>, pasted |-> <<>>]

\* lines 97-101; alpha_composite raises ValueError on images that do not match,
\* after self.minimap_bg has been assigned
ComposeMap ==
    /\ pc = "compose_map"
    /\ minimap_bg' = "bgT"
    /\ \E ok \in BOOLEAN :
        IF ok
        THEN /\ minimap_image' = "fgT"
             /\ heap' = [heap EXCEPT !["bgT"] = BackgroundTemplate,
                                     !["fgT"] = ForegroundTemplate]
             /\ pc' = "resolve_layers"
             /\ error' = error
        ELSE /\ minimap_image' = minimap_image
             /\ heap' = [heap EXCEPT !["bgT"] = BackgroundTemplate]
             /\ pc' = "Failed"
             /\ error' = MapLoadWrap("ValueError")
    /\ UNCHANGED <<envVars, idx, step, mapVars, loaded, init_layers, loopVars,
                   video_writer>>

(***************************************************************************)
(* _check_versioned_layers                                                 *)
(***************************************************************************)
\* the names renderer/layers/__init__.py exports
BaseLayers == {"LayerShipBase", "LayerSmokeBase", "LayerShotBase",
               "LayerTorpedoBase", "LayerPlaneBase", "LayerWardBase",
               "LayerCaptureBase", "LayerHealthBase", "LayerScoreBase",
               "LayerCounterBase", "LayerFragBase", "LayerTimerBase",
               "LayerRibbonBase", "LayerChatBase", "LayerBuildingBase"}

\* f"{layer}Base"
BaseName(layer) ==
    CASE layer = "LayerShip" -> "LayerShipBase"
      [] layer = "LayerShot" -> "LayerShotBase"
      [] layer = "LayerTorpedo" -> "LayerTorpedoBase"
      [] layer = "LayerSmoke" -> "LayerSmokeBase"
      [] layer = "LayerPlane" -> "LayerPlaneBase"
      [] layer = "LayerWard" -> "LayerWardBase"
      [] layer = "LayerCapture" -> "LayerCaptureBase"
      [] OTHER -> "Base"

\* import_module(".layers", versioned_layers_pkg) and getattr(mod, layer):
\* the exception raised, "" if the bundle defines the layer
VersionedLookupError(b, layer) ==
    IF ~b.present THEN "ModuleNotFoundError"
    ELSE IF layer \notin b.defs THEN "AttributeError"
    ELSE ""

\* LayerFallsBack catching the missing bundle only
LayerFallsBackModuleOnly(exc) == exc \in {"ModuleNotFoundError"}

\* the except clause of the loop: the lookup errors that select the default
LayerFallsBack(exc) == exc \in {"ModuleNotFoundError", "AttributeError"}

\* the class one iteration of the loop selects, or the exception it raises
ResolveLayer(b, layer) ==
    LET exc == VersionedLookupError(b, layer)
    IN IF exc = "" THEN [exc |-> "", cls |-> layer, impl |-> "versioned"]
       ELSE IF ~LayerFallsBack(exc) THEN [exc |-> exc, cls |-> "", impl |-> ""]
       ELSE IF BaseName(layer) \in BaseLayers
            THEN [exc |-> "", cls |-> BaseName(layer), impl |-> "base"]
            ELSE [exc |-> "AttributeError", cls |-> "", impl |-> ""]

\* one iteration of `for layer in layers`
ResolveLayerStep ==
    /\ pc = "resolve_layers"
    /\ LET layer == layers[idx + 1]
           r == ResolveLayer(bundle, layer)
       IN IF r.exc # ""
          THEN /\ pc' = "Failed"
               /\ error' = r.exc
               /\ UNCHANGED <<idx, init_layers>>
          ELSE /\ init_layers' = Append(init_layers,
                                        [role |-> layer, cls |-> r.cls, impl |-> r.impl])
               /\ idx' = IF idx + 1 = Len(layers) THEN 0 ELSE idx + 1
               /\ pc' = IF idx + 1 = Len(layers) THEN "open_sink" ELSE "resolve_layers"
               /\ error' = error
    /\ UNCHANGED <<envVars, step, mapVars, imgVars, loopVars, video_writer>>

(***************************************************************************)
(* start: the video writer and the loop over the events                    *)
(***************************************************************************)
\* the names the result of _check_versioned_layers is unpacked into
LayerVars == <<"layer_ship", "layer_shot", "layer_torpedo", "layer_smoke",
               "layer_plane", "layer_ward", "layer_capture">>

\* the layer object a name is bound to
LayerVar(name) ==
    init_layers[CHOOSE i \in 1..Len(LayerVars) : LayerVars[i] = name]

\* DrawCalls made in the order the layers were resolved in
DrawCallsAsResolved == <<[var |-> "layer_ship", canvas |-> "image"],
                         [var |-> "layer_shot", canvas |-> "draw"],
                         [var |-> "layer_torpedo", canvas |-> "draw"],
                         [var |-> "layer_smoke", canvas |-> "image"],
                         [var |-> "layer_plane", canvas |-> "image"],
                         [var |-> "layer_ward", canvas |-> "image"],
                         [var |-> "layer_capture", canvas |-> "image"]>>

\* the draw calls of one iteration, in order, and what each draws on
DrawCalls == <<[var |-> "layer_capture", canvas |-> "image"],
               [var |-> "layer_ward", canvas |-> "image"],
               [var |-> "layer_shot", canvas |-> "draw"],
               [var |-> "layer_torpedo", canvas |-> "draw"],
               [var |-> "layer_ship", canvas |-> "image"],
               [var |-> "layer_smoke", canvas |-> "image"],
               [var |-> "layer_plane", canvas |-> "image"]>>

\* write_frames(...) and video_writer.send(None)
OpenSink ==
    /\ pc = "open_sink"
    /\ \E ok \in BOOLEAN :
        IF ok
        THEN /\ video_writer' = [state |-> "open", path |-> "minimap.mp4", fps |-> 20,
                                 size |-> heap[minimap_bg].size, frames |-> <<>>]
             /\ pc' = "loop_head"
             /\ error' = error
        ELSE /\ video_writer' = video_writer
             /\ pc' = "Failed"
             /\ error' = "SinkOpenError"
    /\ UNCHANGED <<envVars, idx, step, mapVars, imgVars, init_layers, loopVars>>

\* LoopHead returning from start() without closing the writer
LoopHeadNoClose ==
    /\ pc = "loop_head"
    /\ pc' = IF idx < Len(events) THEN "copy" ELSE "Done"
    /\ UNCHANGED <<envVars, idx, step, error, mapVars, imgVars, init_layers,
                   loopVars, video_writer>>

\* `for game_time in self.replay_data.events.keys()`: next key, or leave the loop
LoopHead ==
    /\ pc = "loop_head"
    /\ pc' = IF idx < Len(events) THEN "copy" ELSE "close"
    /\ UNCHANGED <<envVars, idx, step, error, mapVars, imgVars, init_layers,
                   loopVars, video_writer>>

\* CopyRef handing back the image itself instead of a copy
CopyRefAlias(src, fresh) == src

\* Image.copy(): the reference of the image it returns, given a fresh one
CopyRef(src, fresh) == fresh

\* lines 62-65: the two copies and the drawing context on the foreground copy
CopyStep ==
    /\ pc = "copy"
    /\ minimap_img' = CopyRef(minimap_image, "fgC")
    /\ local_minimap_bg' = CopyRef(minimap_bg, "bgC")
    /\ heap' = [heap EXCEPT ![CopyRef(minimap_image, "fgC")] = heap[minimap_image],
                            ![CopyRef(minimap_bg, "bgC")] = heap[minimap_bg]]
    /\ pc' = "draw"
    /\ step' = 0
    /\ UNCHANGED <<envVars, idx, error, mapVars, minimap_image, minimap_bg, loaded,
                   init_layers, video_writer>>

\* GameTime with the loop variable stuck on the first key
GameTimeFirst(keys, i) == keys[1]

\* the key the loop variable game_time holds in iteration i + 1
GameTime(keys, i) == keys[i + 1]

\* what one draw call leaves on the canvas
DrawOp(layer, game_time, canvas) ==
    [role |-> layer.role, cls |-> layer.cls, t |-> game_time, canvas |-> canvas]

\* lines 66-72: one layer draw on the foreground copy; a layer may raise
DrawStep ==
    /\ pc = "draw"
    /\ \E ok \in BOOLEAN :
        IF ok
        THEN /\ heap' = [heap EXCEPT ![minimap_img].ops =
                            Append(@, DrawOp(LayerVar(DrawCalls[step + 1].var),
                                             GameTime(events, idx),
                                             DrawCalls[step + 1].canvas))]
             /\ step' = IF step + 1 = Len(DrawCalls) THEN 0 ELSE step + 1
             /\ pc' = IF step + 1 = Len(DrawCalls) THEN "paste" ELSE "draw"
             /\ error' = error
        ELSE /\ pc' = "Failed"
             /\ error' = "DrawError"
             /\ UNCHANGED <<heap, step>>
    /\ UNCHANGED <<envVars, idx, mapVars, minimap_image, minimap_bg, loaded,
                   init_layers, loopVars, video_writer>>

\* the offset of the paste
PasteAt == <<40, 40>>

\* line 74: minimap_bg.paste(minimap_img, (40, 40)); paste may raise
PasteStep ==
    /\ pc = "paste"
    /\ \E ok \in BOOLEAN :
        IF ok
        THEN /\ heap' = [heap EXCEPT ![local_minimap_bg].pasted =
                            Append(@, [src |-> heap[minimap_img], at |-> PasteAt])]
             /\ pc' = "send"
             /\ error' = error
        ELSE /\ pc' = "Failed"
             /\ error' = "PasteError"
             /\ heap' = heap
    /\ UNCHANGED <<envVars, idx, step, mapVars, minimap_image, minimap_bg, loaded,
                   init_layers, loopVars, video_writer>>

\* line 75: video_writer.send(minimap_bg.tobytes()); the write may raise
SendStep ==
    /\ pc = "send"
    /\ \E ok \in BOOLEAN :
        IF ok
        THEN /\ video_writer' = [video_writer EXCEPT !.frames =
                                    Append(@, heap[local_minimap_bg])]
             /\ idx' = idx + 1
             /\ pc' = "loop_head"
             /\ error' = error
        ELSE /\ pc' = "Failed"
             /\ error' = "SinkWriteError"
             /\ UNCHANGED <<video_writer, idx>>
    /\ UNCHANGED <<envVars, step, mapVars, imgVars, init_layers, loopVars>>

\* line 76: video_writer.close()
CloseStep ==
    /\ pc = "close"
    /\ video_writer' = [video_writer EXCEPT !.state = "closed"]
    /\ pc' = "Done"
    /\ UNCHANGED <<envVars, idx, step, error, mapVars, imgVars, init_layers, loopVars>>

Next ==
    \/ StartCall
    \/ LoadMapManifest
    \/ LoadImage
    \/ ComposeMap
    \/ ResolveLayerStep
    \/ OpenSink
    \/ LoopHead
    \/ CopyStep
    \/ DrawStep
    \/ PasteStep
    \/ SendStep
    \/ CloseStep


Spec == Init /\ [][Next]_vars

\* the same run, entered by any call
SpecCall == InitCall /\ [][Next]_vars

(***************************************************************************)
(* get_scaled and get_scaled_r.  A float is a whole numerator over a power *)
(* of two and has Precision significant bits; every float operation rounds *)
(* its exact result to the nearest float, ties to the even significand.    *)
(***************************************************************************)
\* world coordinates and radii are numerators over CoordDen
CoordDen == 2 ^ 4
\* the scale is a numerator over ScaleDen
ScaleDen == 2 ^ (Precision + 2)
\* products and sums are numerators over ProdDen
ProdDen == CoordDen * ScaleDen

\* n / d to the nearest integer, halves to the even one
RoundHalfEven(n, d) ==
    LET q == n \div d
        m == n % d
    IN IF 2 * m < d THEN q
       ELSE IF 2 * m > d THEN q + 1
       ELSE IF q % 2 = 0 THEN q ELSE q + 1

\* round() with halves going up
PyRoundHalfUp(n, d) ==
    IF 2 * (n % d) < d THEN n \div d ELSE (n \div d) + 1

\* the builtin round() of the float n / d
PyRound(n, d) == RoundHalfEven(n, d)

Abs(n) == IF n < 0 THEN -n ELSE n

\* the exponent e of the unit in the last place, 2^e, of the numerator n
RECURSIVE UlpExp(_, _)
UlpExp(n, e) == IF Abs(n) < 2 ^ (Precision + e) THEN e ELSE UlpExp(n, e + 1)

\* the float nearest to the exact numerator n
FRound(n) == RoundHalfEven(n, 2 ^ UlpExp(n, 0)) * (2 ^ UlpExp(n, 0))

\* json.load reading a decimal: the float nearest to val / 1000, over ScaleDen
\* (for the scales of 1/8 and more that the model uses)
ParseFloat(val) ==
    LET e == UlpExp((val * ScaleDen) \div 1000, 0)
    IN RoundHalfEven(val * ScaleDen, 1000 * (2 ^ e)) * (2 ^ e)

\* a * s for a coordinate a and the scale s
FMul(a, s) == FRound(a * s)
\* u + v for two numerators over ProdDen
FAdd(u, v) == FRound(u + v)

\* HalfSize without the division
HalfSizeWhole(size) == size.val * ProdDen

\* self.minimap_size / 2
HalfSize(size) == (size.val * ProdDen) \div 2

\* Renderer.get_scaled(xy, flip_y) for a session with minimap_size and scaling
get_scaled(xy, flip_y, size, scale) ==
    LET x == xy[1]
        y == IF flip_y THEN -xy[2] ELSE xy[2]
    IN <<PyRound(FAdd(FMul(x, ParseFloat(scale.val)), HalfSize(size)), ProdDen),
         PyRound(FAdd(FMul(y, ParseFloat(scale.val)), HalfSize(size)), ProdDen)>>

\* Renderer.get_scaled_r(r): a float, as a numerator over ProdDen
get_scaled_r(r, scale) == FMul(r, ParseFloat(scale.val))

\* the coordinates, radii and scales the calls are made with
Coords == -MaxCoord..MaxCoord
XCoords == {0, 24}
Radii == 0..MaxCoord
ScaleFloats == {JFloat(1000), JFloat(500), JFloat(235)}
ScaleArgs ==
    {[fn |-> "get_scaled", xy |-> <<x, y>>, flip_y |-> f, r |-> 0] :
        x \in XCoords, y \in Coords, f \in BOOLEAN}
    \cup {[fn |-> "get_scaled_r", xy |-> <<0, 0>>, flip_y |-> TRUE, r |-> r] : r \in Radii}

\* a session whose map is loaded, about to be asked for a pixel position
InitScale ==
    /\ arg \in ScaleArgs
    /\ ret = NoRet
    /\ call = PlainCall
    /\ versioned_manifest = ManifestOf("NoMap", NoEntry)
    /\ \E sc \in ScaleFloats :
        /\ default_manifest = ManifestOf("Entry", EntryOf(<<JInt(760), JInt(1600), sc>>))
        /\ scaling = sc
    /\ bundle = [present |-> FALSE, defs |-> {}]
    /\ events = <<>>
    /\ pc = "scale_call"
    /\ idx = 0
    /\ step = 0
    /\ error = ""
    /\ minimap_size = JInt(760)
    /\ space_size = JInt(1600)
    /\ map_res = "default"
    /\ minimap_image = "fgT"
    /\ minimap_bg = "bgT"
    /\ heap = [r \in Refs |-> IF r = "fgT" THEN ForegroundTemplate
                              ELSE IF r = "bgT" THEN BackgroundTemplate
                              ELSE NoImage]
    /\ loaded = <<>>
    /\ init_layers = <<>>
    /\ minimap_img = "None"
    /\ local_minimap_bg = "None"
    /\ video_writer = [state |-> "none", path |-> "", fps |-> 0, size |-> 0, frames |-> <<>>]

GetScaled ==
    /\ pc = "scale_call"
    /\ arg.fn = "get_scaled"
    /\ ret' = [ret EXCEPT !.xy = get_scaled(arg.xy, arg.flip_y, minimap_size, scaling)]
    /\ pc' = "scale_ret"
    /\ UNCHANGED <<arg, call, versioned_manifest, default_manifest, bundle, events,
                   idx, step, error, mapVars, imgVars, init_layers, loopVars,
                   video_writer>>

GetScaledR ==
    /\ pc = "scale_call"
    /\ arg.fn = "get_scaled_r"
    /\ ret' = [ret EXCEPT !.r = get_scaled_r(arg.r, scaling)]
    /\ pc' = "scale_ret"
    /\ UNCHANGED <<arg, call, versioned_manifest, default_manifest, bundle, events,
                   idx, step, error, mapVars, imgVars, init_layers, loopVars,
                   video_writer>>

NextScale ==
    \/ GetScaled
    \/ GetScaledR

SpecScale == InitScale /\ [][NextScale]_vars

(***************************************************************************)
(* Vocabulary of the properties.                                           *)
(***************************************************************************)
frames == video_writer.frames

\* the draw order the specification demands
RoleOrder == <<"LayerCapture", "LayerWard", "LayerShot", "LayerTorpedo",
               "LayerShip", "LayerSmoke", "LayerPlane">>

\* the roles of a sequence of draw calls, and the timestamps they were made for
RolesOf(ops) == [k \in 1..Len(ops) |-> ops[k].role]
TimesOf(ops) == {ops[k].t : k \in 1..Len(ops)}

\* img is a background on which one foreground, drawn for t, was pasted
FrameFor(img, t) ==
    /\ Len(img.pasted) = 1
    /\ Len(img.pasted[1].src.ops) = Len(RoleOrder)
    /\ TimesOf(img.pasted[1].src.ops) = {t}

\* a manifest that holds the map with an entry of the documented format
ValidEntry(m) ==
    /\ m.st = "Entry"
    /\ m.entry.iter
    /\ Len(m.entry.items) = 3
    /\ m.entry.items[1] = JInt(760)
    /\ m.entry.items[2].type = "int"
    /\ 0 < m.entry.items[2].val /\ m.entry.items[2].val <= 1600
    /\ m.entry.items[3].type = "float"

\* _load_map_manifest has run
Resolved == pc \notin {"call", "load_manifest"} /\ error # "TypeError"

(***************************************************************************)
(* C1: the frames written to the sink are, at every moment, the frames     *)
(* composed for the first timestamps of events in iteration order, one per *)
(* timestamp, and when start() returns there is one frame for every entry. *)
(***************************************************************************)
C1_FramesFollowEvents ==
    /\ Len(frames) <= Len(events)
    /\ \A i \in 1..Len(frames) : FrameFor(frames[i], events[i])
    /\ pc \in {"copy", "draw", "paste", "send"} => Len(frames) = idx
    /\ pc = "Done" => Len(frames) = Len(events)

C1_Witness ==
    /\ pc = "Done"
    /\ Len(events) = 2
    /\ events[1] > events[2]
    /\ Len(frames) = 2
    /\ FrameFor(frames[1], events[1])
    /\ FrameFor(frames[2], events[2])

(***************************************************************************)
(* C2: within one iteration the draw calls made so far on the foreground   *)
(* copy are a prefix of Capture, Ward, Shot, Torpedo, Ship, Smoke, Plane;  *)
(* nothing is pasted on the background copy before all seven are drawn;    *)
(* what is sent is a background with exactly one paste, at (40, 40), of a  *)
(* foreground that carries the seven draws in that order, once each.       *)
(***************************************************************************)
C2_Composed(img) ==
    /\ Len(img.pasted) = 1
    /\ img.pasted[1].at = <<40, 40>>
    /\ RolesOf(img.pasted[1].src.ops) = RoleOrder
    /\ img.ops = <<>>

C2_DrawOrder ==
    /\ pc = "draw" =>
        /\ RolesOf(heap[minimap_img].ops) = SubSeq(RoleOrder, 1, step)
        /\ heap[local_minimap_bg].pasted = <<>>
    /\ pc = "paste" =>
        /\ RolesOf(heap[minimap_img].ops) = RoleOrder
        /\ heap[local_minimap_bg].pasted = <<>>
    /\ pc = "send" =>
        /\ C2_Composed(heap[local_minimap_bg])
        /\ heap[local_minimap_bg].pasted[1].src = heap[minimap_img]
    /\ \A i \in 1..Len(frames) : C2_Composed(frames[i])

C2_Witness ==
    /\ pc = "loop_head"
    /\ Len(frames) = 2
    /\ C2_Composed(frames[2])
    /\ \E k \in 1..7 : frames[2].pasted[1].src.ops[k].cls = "LayerWard"

(***************************************************************************)
(* C3: when only the default manifest holds a valid entry for the map,     *)
(* the versioned package or manifest being absent or lacking the map,      *)
(* resolution succeeds with the default package and minimap_size 760.      *)
(***************************************************************************)
C3_OnlyDefault ==
    /\ versioned_manifest.st \in {"NoPackage", "NoFile", "NoMap"}
    /\ ValidEntry(default_manifest)

C3_FallsBackToDefault ==
    (Resolved /\ C3_OnlyDefault) =>
        /\ error # "MapManifestLoadError"
        /\ map_res = "default"
        /\ minimap_size = JInt(760)

(***************************************************************************)
(* C4: a run that has ended, normally or by an exception, after the sink   *)
(* was opened has closed the sink.                                         *)
(***************************************************************************)
C4_SinkClosedOnExit ==
    (pc \in {"Done", "Failed"} /\ video_writer.state # "none") =>
        video_writer.state = "closed"

(***************************************************************************)
(* C5: when the versioned manifest holds a valid entry for the map,        *)
(* resolution succeeds, returns the versioned package and sets             *)
(* minimap_size, space_size and scaling from the versioned entry,          *)
(* whatever the default manifest holds.                                    *)
(***************************************************************************)
C5_VersionedWins ==
    (Resolved /\ ValidEntry(versioned_manifest)) =>
        /\ error # "MapManifestLoadError"
        /\ map_res = "versioned"
        /\ minimap_size = versioned_manifest.entry.items[1]
        /\ space_size = versioned_manifest.entry.items[2]
        /\ scaling = versioned_manifest.entry.items[3]

C5_Witness ==
    /\ map_res = "versioned"
    /\ ValidEntry(versioned_manifest)
    /\ ValidEntry(default_manifest)
    /\ space_size = JInt(720)
    /\ default_manifest.entry.items[2] = JInt(1600)

(***************************************************************************)
(* C6: resolution returns a package only with minimap_size an int equal to *)
(* 760, space_size an int in (0, 1600] and scaling a float, these being    *)
(* the entry of the manifest it selected; whenever it does not return a    *)
(* package, because the map is in neither manifest or the entry breaks one *)
(* of these, it raises MapManifestLoadError and nothing else.              *)
(* (int as Python's isinstance has it.)                                    *)
(***************************************************************************)
C6_Selected ==
    IF map_res = "versioned" THEN versioned_manifest ELSE default_manifest

C6_Passes(e) ==
    /\ e.iter
    /\ Len(e.items) = 3
    /\ e.items[1].type \in {"int", "bool"} /\ e.items[1].val = 760
    /\ e.items[2].type \in {"int", "bool"}
    /\ 0 < e.items[2].val /\ e.items[2].val <= 1600
    /\ e.items[3].type = "float"

C6_EntryChecked ==
    /\ map_res # "none" =>
        /\ C6_Selected.st = "Entry"
        /\ C6_Passes(C6_Selected.entry)
        /\ <<minimap_size, space_size, scaling>> = C6_Selected.entry.items
    /\ (Resolved /\ map_res = "none") =>
        /\ pc = "Failed"
        /\ error = "MapManifestLoadError"
    /\ (Resolved /\ versioned_manifest.st = "Entry"
                 /\ ~C6_Passes(versioned_manifest.entry)) => map_res = "none"
    /\ (Resolved /\ versioned_manifest.st # "Entry"
                 /\ (default_manifest.st # "Entry" \/ ~C6_Passes(default_manifest.entry)))
            => map_res = "none"

C6_Witness ==
    /\ pc = "Failed"
    /\ error = "MapManifestLoadError"
    /\ versioned_manifest.st = "NoMap"
    /\ default_manifest.st = "Entry"
    /\ default_manifest.entry.iter
    /\ Len(default_manifest.entry.items) = 3
    /\ default_manifest.entry.items[2] = JInt(1601)
    /\ space_size = JInt(1601)

(***************************************************************************)
(* C7: resolving a layer never raises for want of an override: a role the  *)
(* bundle lacks, or any role when the bundle is absent, gets its <Role>Base*)
(* class; a role the bundle defines gets the bundle's class; role by role. *)
(***************************************************************************)
C7_LayerFallback ==
    /\ error \notin {"ModuleNotFoundError", "AttributeError"}
    /\ pc \in {"open_sink", "loop_head", "Done"} => Len(init_layers) = Len(layers)
    /\ \A i \in 1..Len(init_layers) :
        LET l == init_layers[i]
        IN IF bundle.present /\ l.role \in bundle.defs
           THEN l.impl = "versioned" /\ l.cls = l.role
           ELSE l.impl = "base" /\ l.cls \in BaseLayers /\ l.cls # l.role

C7_Witness ==
    /\ Len(init_layers) = Len(layers)
    /\ bundle.present
    /\ bundle.defs = {"LayerSmoke"}
    /\ init_layers[4].impl = "versioned"
    /\ init_layers[3].impl = "base"
    /\ init_layers[5].cls = "LayerPlaneBase"

(***************************************************************************)
(* C8: the stages follow one another in the order NotStarted, MapLoaded,   *)
(* LayersResolved, Streaming, Done.  No image is loaded before the         *)
(* manifest is resolved, no layer constructed before both map images are   *)
(* set, the sink not opened and no frame written before all layers are     *)
(* constructed; after a manifest-load or map-load error nothing more       *)
(* happens.                                                                *)
(***************************************************************************)
C8_Stage(p) ==
    CASE p \in {"call", "load_manifest", "load_images", "compose_map"} -> 0
      [] p = "resolve_layers" -> 1
      [] p = "open_sink" -> 2
      [] p \in {"loop_head", "copy", "draw", "paste", "send", "close"} -> 3
      [] p = "Done" -> 4
      [] OTHER -> 5

C8_Order ==
    /\ loaded # <<>> => map_res # "none"
    /\ init_layers # <<>> =>
        /\ minimap_image # "None" /\ minimap_bg # "None"
        /\ Len(loaded) = 3
    /\ (video_writer.state # "none" \/ frames # <<>>) => Len(init_layers) = Len(layers)
    /\ C8_Stage(pc) >= 1 /\ C8_Stage(pc) <= 4 => minimap_image # "None"
    /\ C8_Stage(pc) >= 2 /\ C8_Stage(pc) <= 4 => Len(init_layers) = Len(layers)
    /\ C8_Stage(pc) \in {3, 4} => video_writer.state # "none"
    /\ error = "MapManifestLoadError" => loaded = <<>>
    /\ error \in {"MapManifestLoadError", "MapLoadError"} =>
        /\ pc = "Failed"
        /\ init_layers = <<>>
        /\ video_writer.state = "none"
        /\ frames = <<>>

C8_StageOrder ==
    [][/\ pc # "Failed"
       /\ pc' # "Failed" => C8_Stage(pc') \in {C8_Stage(pc), C8_Stage(pc) + 1}]_vars

C8_Stages == []C8_Order /\ C8_StageOrder

C8_Witness ==
    /\ pc = "Failed"
    /\ error = "MapLoadError"
    /\ Len(loaded) = 2
    /\ map_res = "versioned"

(***************************************************************************)
(* C9: whenever a load_image call of _load_map fails, whatever the         *)
(* failure, _load_map raises MapLoadError.                                 *)
(***************************************************************************)
C9_MapLoadErrorOnly ==
    \A i \in 1..Len(loaded) : loaded[i].outcome # "ok" => error = "MapLoadError"

(***************************************************************************)
(* C10: once the map is loaded the two templates keep the content they     *)
(* were built with, the per-iteration copies are other images than the     *)
(* templates, and every frame written is the background template with the  *)
(* foreground template pasted on it carrying the draws of its own          *)
(* timestamp only.                                                         *)
(***************************************************************************)
C10_Fresh(img, t) ==
    /\ [img EXCEPT !.pasted = <<>>] = BackgroundTemplate
    /\ Len(img.pasted) = 1
    /\ [img.pasted[1].src EXCEPT !.ops = <<>>] = ForegroundTemplate
    /\ TimesOf(img.pasted[1].src.ops) = {t}
    /\ Len(img.pasted[1].src.ops) = Len(RoleOrder)

C10_TemplatesUntouched ==
    /\ minimap_image # "None" =>
        /\ heap[minimap_image] = ForegroundTemplate
        /\ heap[minimap_bg] = BackgroundTemplate
    /\ pc \in {"draw", "paste", "send"} =>
        /\ minimap_img \notin {minimap_image, minimap_bg}
        /\ local_minimap_bg \notin {minimap_image, minimap_bg}
    /\ \A i \in 1..Len(frames) : C10_Fresh(frames[i], events[i])

C10_Witness ==
    /\ pc = "send"
    /\ Len(frames) = 1
    /\ heap[minimap_img].ops # <<>>
    /\ heap[local_minimap_bg].pasted # <<>>
    /\ heap[minimap_image] = ForegroundTemplate
    /\ heap[minimap_bg] = BackgroundTemplate

(***************************************************************************)
(* C11 as claimed: the roles are resolved and constructed in the draw      *)
(* order Capture, Ward, Shot, Torpedo, Ship, Smoke, Plane.                 *)
(***************************************************************************)
C11_ResolvedInDrawOrder ==
    \A i \in 1..Len(init_layers) : init_layers[i].role = RoleOrder[i]

(***************************************************************************)
(* C11 as amended: the roles are resolved and constructed in the fixed     *)
(* order Ship, Shot, Torpedo, Smoke, Plane, Ward, Capture, which is not    *)
(* the draw order; start() binds each constructed layer to the name of its *)
(* own role, so every draw call reaches the layer of the role it names.    *)
(***************************************************************************)
C11_ResolveOrder == <<"LayerShip", "LayerShot", "LayerTorpedo", "LayerSmoke",
                      "LayerPlane", "LayerWard", "LayerCapture">>

C11_ResolveOrderFixed ==
    /\ Len(init_layers) <= Len(C11_ResolveOrder)
    /\ \A i \in 1..Len(init_layers) : init_layers[i].role = C11_ResolveOrder[i]
    /\ pc = "resolve_layers" => Len(init_layers) = idx
    /\ C11_ResolveOrder # RoleOrder
    /\ Len(init_layers) = Len(C11_ResolveOrder) =>
        /\ LayerVar("layer_ship").role = "LayerShip"
        /\ LayerVar("layer_shot").role = "LayerShot"
        /\ LayerVar("layer_torpedo").role = "LayerTorpedo"
        /\ LayerVar("layer_smoke").role = "LayerSmoke"
        /\ LayerVar("layer_plane").role = "LayerPlane"
        /\ LayerVar("layer_ward").role = "LayerWard"
        /\ LayerVar("layer_capture").role = "LayerCapture"

C11_Witness ==
    /\ pc = "resolve_layers"
    /\ Len(init_layers) = 2
    /\ init_layers[1].role = "LayerShip"
    /\ init_layers[2].role = "LayerShot"
    /\ init_layers[2].impl = "versioned"

(***************************************************************************)
(* C12: once the layers are resolved, a layer has been constructed for     *)
(* each of the 15 roles Ship, Shot, Torpedo, Smoke, Plane, Ward, Capture,  *)
(* Health, Score, Counter, Frag, Timer, Ribbon, Chat, Building.            *)
(***************************************************************************)
C12_AllRoles == {"LayerShip", "LayerShot", "LayerTorpedo", "LayerSmoke",
                 "LayerPlane", "LayerWard", "LayerCapture", "LayerHealth",
                 "LayerScore", "LayerCounter", "LayerFrag", "LayerTimer",
                 "LayerRibbon", "LayerChat", "LayerBuilding"}

C12_FifteenRolesResolved ==
    pc \in {"open_sink", "loop_head", "copy", "draw", "paste", "send", "close", "Done"} =>
        {init_layers[i].role : i \in 1..Len(init_layers)} = C12_AllRoles

(***************************************************************************)
(* C13: after start() has failed, minimap_size, space_size, scaling,       *)
(* minimap_image and minimap_bg are what they were before the call.        *)
(***************************************************************************)
C13_NoStateAfterFailure ==
    pc = "Failed" =>
        /\ minimap_size = JInt(0)
        /\ space_size = JInt(0)
        /\ scaling = JFloat(0)
        /\ minimap_image = "None"
        /\ minimap_bg = "None"

(***************************************************************************)
(* C14: a call that supplies an output path p is accepted, and the sink it *)
(* opens is opened on p, whatever the options.                             *)
(***************************************************************************)
C14_SinkOnCallerPath ==
    (call.path # "" /\ pc # "call") =>
        /\ error # "TypeError"
        /\ video_writer.state # "none" => video_writer.path = call.path

(***************************************************************************)
(* C17: the writer goes from not opened to open to closed and never back;  *)
(* it is opened with fps 20 and the size of the background template;       *)
(* frames are appended one at a time, only while it is open, each of the   *)
(* size it was opened with; a run that returns has closed it, and with no  *)
(* events it has been opened and closed without a write.                   *)
(***************************************************************************)
C17_Protocol ==
    /\ video_writer.state = "none" => frames = <<>>
    /\ video_writer.state # "none" =>
        /\ video_writer.fps = 20
        /\ video_writer.size = BackgroundTemplate.size
        /\ video_writer.size = heap[minimap_bg].size
    /\ \A i \in 1..Len(frames) : frames[i].size = video_writer.size
    /\ pc = "Done" => video_writer.state = "closed"
    /\ (pc = "Done" /\ events = <<>>) => frames = <<>>

C17_Steps ==
    [][/\ video_writer.state' # video_writer.state =>
            \/ video_writer.state = "none" /\ video_writer.state' = "open"
            \/ video_writer.state = "open" /\ video_writer.state' = "closed"
       /\ frames' # frames =>
            /\ video_writer.state = "open" /\ video_writer.state' = "open"
            /\ Len(frames') = Len(frames) + 1
            /\ SubSeq(frames', 1, Len(frames)) = frames
       /\ video_writer.state # "none" =>
            /\ video_writer.fps' = video_writer.fps
            /\ video_writer.size' = video_writer.size
            /\ video_writer.path' = video_writer.path]_vars

C17_SinkProtocol == []C17_Protocol /\ C17_Steps

C17_Witness ==
    /\ pc = "Done"
    /\ events = <<>>
    /\ video_writer.state = "closed"
    /\ video_writer.size = 840
    /\ frames = <<>>

(***************************************************************************)
(* C18: the default package is selected only when the versioned manifest   *)
(* file is missing or lacks the map.  When the versioned manifest holds    *)
(* the map with an entry that does not unpack into three values or fails a *)
(* type or range check, resolution raises MapManifestLoadError, returns no *)
(* package and never reads the default entry into the fields, also when    *)
(* the default entry is valid.  (int as Python's isinstance has it.)       *)
(***************************************************************************)
C18_NoFallbackOnBadEntry ==
    /\ map_res = "default" => versioned_manifest.st \in {"NoFile", "NoMap"}
    /\ (Resolved /\ versioned_manifest.st = "Entry"
                 /\ ~C6_Passes(versioned_manifest.entry)) =>
        /\ pc = "Failed"
        /\ error = "MapManifestLoadError"
        /\ map_res = "none"
        /\ \/ <<minimap_size, space_size, scaling>> = versioned_manifest.entry.items
           \/ <<minimap_size, space_size, scaling>> = <<JInt(0), JInt(0), JFloat(0)>>

C18_Witness ==
    /\ pc = "Failed"
    /\ error = "MapManifestLoadError"
    /\ versioned_manifest = ManifestOf("Entry", ShortEntry)
    /\ ValidEntry(default_manifest)
    /\ map_res = "none"
    /\ minimap_size = JInt(0)

(***************************************************************************)
(* Vocabulary of the properties of get_scaled.                             *)
(***************************************************************************)
\* a get_scaled call with flip_y = True has returned
FlipReturned == pc = "scale_ret" /\ arg.fn = "get_scaled" /\ arg.flip_y

\* what get_scaled returns in this session for the mirrored coordinate (x, -y)
MirrorRet == get_scaled(<<arg.xy[1], -arg.xy[2]>>, TRUE, minimap_size, scaling)

\* the exact values of y * scale + 380 and -y * scale + 380 for the scaled
\* y * scale the code has computed
ExactSums ==
    LET p == FMul(arg.xy[2], ParseFloat(scaling.val))
    IN <<HalfSize(minimap_size) - p, HalfSize(minimap_size) + p>>

\* neither addition is rounded
SumsExact == FRound(ExactSums[1]) = ExactSums[1] /\ FRound(ExactSums[2]) = ExactSums[2]

(***************************************************************************)
(* C15 as claimed: with flip_y = True, get_scaled((x, y)) and              *)
(* get_scaled((x, -y)) have the same x, and their y values sum to          *)
(* minimap_size, for every coordinate and scale.                           *)
(***************************************************************************)
C15_MirrorAlways ==
    FlipReturned =>
        /\ ret.xy[1] = MirrorRet[1]
        /\ ret.xy[2] + MirrorRet[2] = minimap_size.val

(***************************************************************************)
(* C15 as amended: the x values are the same, and the y values sum to      *)
(* minimap_size whenever neither y * scale + 380 nor -y * scale + 380 is   *)
(* rounded by the float addition; that covers every scaled value that      *)
(* falls exactly on a half.                                                *)
(***************************************************************************)
C15_MirrorWhenExact ==
    FlipReturned =>
        /\ ret.xy[1] = MirrorRet[1]
        /\ SumsExact => ret.xy[2] + MirrorRet[2] = minimap_size.val
        /\ (2 * ExactSums[1]) % ProdDen = 0 => SumsExact

C15_Witness ==
    /\ FlipReturned
    /\ arg.xy[2] # 0
    /\ ExactSums[1] % ProdDen = ProdDen \div 2
    /\ SumsExact
    /\ ret.xy[2] = MirrorRet[2]
    /\ ret.xy[2] + MirrorRet[2] = 760

(***************************************************************************)
(* C16: get_scaled((0, 0), flip_y=True) is (380, 380), half of             *)
(* minimap_size, for every scale; get_scaled_r(r) is the float r * scale:  *)
(* the exact product where that is a float, else one of the two floats     *)
(* next to it, with nothing added and not rounded to whole pixels.         *)
(***************************************************************************)
C16_Product == arg.r * ParseFloat(scaling.val)

C16_OriginAndRadius ==
    /\ (FlipReturned /\ arg.xy = <<0, 0>>) =>
        /\ ret.xy = <<380, 380>>
        /\ 2 * ret.xy[1] = minimap_size.val
    /\ (pc = "scale_ret" /\ arg.fn = "get_scaled_r") =>
        /\ Abs(C16_Product) < 2 ^ Precision => ret.r = C16_Product
        /\ 2 * Abs(ret.r - C16_Product) <= 2 ^ UlpExp(C16_Product, 0)
        /\ arg.r = 0 => ret.r = 0

C16_Witness ==
    /\ FlipReturned
    /\ arg.xy = <<0, 0>>
    /\ scaling = JFloat(235)
    /\ ret.xy = <<380, 380>>
====
